---- MODULE Spec2Model ----
(***************************************************************************)
(* The Rusty chat server (src/chatbot/rusty/src/lib.rs): the accept loop   *)
(* of Rusty::run, one spawned task per accepted connection, the hand-made  *)
(* request classification, the serde_json decoding and encoding of         *)
(* ChatMessage, and the framing of the four responses.                     *)
(*                                                                         *)
(* Text is a sequence of characters and wire data a sequence of bytes.  An *)
(* ASCII character and its byte are both the one-character string; the     *)
(* characters outside printable ASCII are "U+" and their code point, as   *)
(* "U+00E9" (bytes xC3 xA9) and "U+0008" (the backspace); a byte above    *)
(* 0x7F is "x" and its value, as "xFF".  Positions are character counts,  *)
(* lengths written on the wire are byte counts.                            *)
(*                                                                         *)
(* The web interface (src/frontend/web_interface/src/lib.rs): Model with   *)
(* its history and input, Model::update for the four Msg values, and the   *)
(* future each Send spawns for its request.                                *)
(*                                                                         *)
(* Spec has MaxConns connections and a few requests, SpecWire one          *)
(* connection and the wide catalogue of requests, SpecStream one           *)
(* connection whose peer sends long requests or requests in two pieces,    *)
(* FairSpec is Spec under the scheduling of the tokio runtime; SpecUi is   *)
(* the web interface, FairSpecUi the same with its events delivered.       *)
(***************************************************************************)
EXTENDS Integers, Sequences, FiniteSets, TLC

\* ------------------------------------------------------------- bounds
\* connections the peers may open
MaxConns == 2
\* bytes one short write of write_all hands to the socket
ShortWrite == 17
\* short writes one write_all may see before the rest goes out
MaxShortWrites == 1
\* the Send events the user gives
MaxSends == 2

\* lib.rs:33  let mut buffer = [0; 1024]
BufSize == 1024

\* ------------------------------------------------------------- text
NoneVal == "None"

Take(s, n) == SubSeq(s, 1, IF n < Len(s) THEN n ELSE Len(s))

Drop(s, n) == SubSeq(s, n + 1, Len(s))

\* str::starts_with
starts_with(s, p) == Len(p) <= Len(s) /\ SubSeq(s, 1, Len(p)) = p

\* str::find: the offset (from 0) of the first occurrence of p in s, -1 for None
find(s, p) ==
    LET hits == {i \in 0..(Len(s) - Len(p)) : SubSeq(s, i + 1, i + Len(p)) = p}
    IN  IF hits = {} THEN -1 ELSE CHOOSE i \in hits : \A j \in hits : i <= j

\* ------------------------------------------------------------- characters
\* the names of characters and bytes: printable ASCII but the grave accent, tab,
\* line feed, form feed and carriage return are the one-character strings; every other character is
\* "U+" and its code point in hexadecimal (four digits at least), a byte above
\* 0x7F is "x" and its two hexadecimal digits; a byte up to 0x7F has the name of
\* its character
HexUpper == "0123456789ABCDEF"

HexLower == "0123456789abcdef"

\* U+0020 to U+005F in order
PrintableLow == " !\"#$%&'()*+,-./0123456789:;<=>?@ABCDEFGHIJKLMNOPQRSTUVWXYZ[\\]^_"

\* U+0061 to U+007E in order
PrintableHigh == "abcdefghijklmnopqrstuvwxyz{|}~"

HexDigit(k) == SubSeq(HexUpper, k + 1, k + 1)

IsHexDigit(ch) ==
    \E k \in 1..16 : ch = SubSeq(HexUpper, k, k) \/ ch = SubSeq(HexLower, k, k)

HexVal(ch) ==
    (CHOOSE k \in 1..16 : ch = SubSeq(HexUpper, k, k) \/ ch = SubSeq(HexLower, k, k)) - 1

\* the number a string of hexadecimal digits writes
RECURSIVE HexNumber(_)
HexNumber(h) ==
    IF Len(h) = 0 THEN 0
    ELSE (16 * HexNumber(SubSeq(h, 1, Len(h) - 1))) + HexVal(SubSeq(h, Len(h), Len(h)))

\* n in hexadecimal, four digits at least
RECURSIVE HexName(_, _)
HexName(n, width) ==
    IF width <= 0 /\ n = 0 THEN ""
    ELSE HexName(n \div 16, width - 1) \o HexDigit(n % 16)

\* the byte of value k, 0x80 <= k <= 0xFF
ByteName(k) == "x" \o HexDigit(k \div 16) \o HexDigit(k % 16)

IsHighByte(b) == Len(b) = 3

\* the value of a byte above 0x7F
ByteVal(b) == (16 * HexVal(SubSeq(b, 2, 2))) + HexVal(SubSeq(b, 3, 3))

\* char::from_u32 for a scalar value n
CharOf(n) ==
    IF n >= 32 /\ n <= 95 THEN SubSeq(PrintableLow, n - 31, n - 31)
    ELSE IF n >= 97 /\ n <= 126 THEN SubSeq(PrintableHigh, n - 96, n - 96)
    ELSE CASE n = 9 -> "\t"
           [] n = 10 -> "\n"
           [] n = 12 -> "\f"
           [] n = 13 -> "\r"
           [] OTHER -> "U+" \o HexName(n, 4)

\* the code point of a character
CodePoint(ch) ==
    IF Len(ch) > 1 THEN HexNumber(SubSeq(ch, 3, Len(ch)))
    ELSE CASE ch = "\t" -> 9
           [] ch = "\n" -> 10
           [] ch = "\f" -> 12
           [] ch = "\r" -> 13
           [] OTHER -> CHOOSE n \in 32..126 : n # 96 /\ CharOf(n) = ch

\* char::encode_utf8
encode_utf8(n) ==
    IF n < 128 THEN <<CharOf(n)>>
    ELSE IF n < 2048 THEN <<ByteName(192 + (n \div 64)), ByteName(128 + (n % 64))>>
    ELSE IF n < 65536
         THEN <<ByteName(224 + (n \div 4096)), ByteName(128 + ((n \div 64) % 64)),
                ByteName(128 + (n % 64))>>
    ELSE <<ByteName(240 + (n \div 262144)), ByteName(128 + ((n \div 4096) % 64)),
           ByteName(128 + ((n \div 64) % 64)), ByteName(128 + (n % 64))>>

\* the UTF-8 encoding of one character
CharBytes(ch) == IF Len(ch) = 1 THEN <<ch>> ELSE encode_utf8(CodePoint(ch))

\* the bytes of the characters lo..hi of s, in order (the range is halved so that
\* long texts are not walked one nested call per character)
RECURSIVE bytes_between(_, _, _)
bytes_between(s, lo, hi) ==
    IF lo > hi THEN <<>>
    ELSE IF lo = hi THEN CharBytes(s[lo])
    ELSE LET mid == (lo + hi) \div 2
         IN  bytes_between(s, lo, mid) \o bytes_between(s, mid + 1, hi)

\* str::as_bytes (a text of one-byte characters is its own bytes)
as_bytes(s) ==
    IF \A i \in 1..Len(s) : Len(s[i]) = 1 THEN s
    ELSE bytes_between(s, 1, Len(s))

\* str::len, a count of bytes
len(s) == Len(as_bytes(s))

\* the value of the byte at i when it is above 0x7F, 0 for a byte up to 0x7F and
\* past the end of b
high_at(b, i) == IF i >= 1 /\ i <= Len(b) /\ IsHighByte(b[i]) THEN ByteVal(b[i]) ELSE 0

\* a continuation byte, 0x80..0xBF
is_continuation(v) == v >= 128 /\ v <= 191

\* utf8_char_width: the length of the sequence a first byte announces, 0 for a byte
\* that starts none (0x80..0xC1, 0xF5..0xFF)
utf8_char_width(v) ==
    IF v >= 194 /\ v <= 223 THEN 2
    ELSE IF v >= 224 /\ v <= 239 THEN 3
    ELSE IF v >= 240 /\ v <= 244 THEN 4
    ELSE 0

\* the second bytes a first byte admits (overlong forms, surrogates and code
\* points past U+10FFFF are shut out here)
second_ok(first, v) ==
    CASE first = 224 -> v >= 160 /\ v <= 191
      [] first = 237 -> v >= 128 /\ v <= 159
      [] first = 240 -> v >= 144 /\ v <= 191
      [] first = 244 -> v >= 128 /\ v <= 143
      [] OTHER -> is_continuation(v)

\* Utf8Chunks: how many bytes from the first byte at j on belong to its sequence,
\* whole or broken off (1 when the byte at j starts none)
accepted(b, j) ==
    LET first == high_at(b, j)
        w == utf8_char_width(first)
    IN  IF w = 0 \/ ~second_ok(first, high_at(b, j + 1)) THEN 1
        ELSE IF w = 2 THEN 2
        ELSE IF ~is_continuation(high_at(b, j + 2)) THEN 2
        ELSE IF w = 3 THEN 3
        ELSE IF ~is_continuation(high_at(b, j + 3)) THEN 3
        ELSE 4

\* the code point the whole sequence of width w at j encodes
decode_sequence(b, j, w) ==
    LET c(k) == high_at(b, j + k) % 64
    IN  CASE w = 2 -> ((high_at(b, j) % 32) * 64) + c(1)
          [] w = 3 -> ((high_at(b, j) % 16) * 4096) + (c(1) * 64) + c(2)
          [] w = 4 -> ((high_at(b, j) % 8) * 262144) + (c(1) * 4096) + (c(2) * 64) + c(3)

\* what from_utf8_lossy makes of the byte at position i: itself when it is up to
\* 0x7F; at the first byte of a sequence the character when the sequence is whole
\* and U+FFFD when it is broken off; nothing at a continuation byte that an earlier
\* first byte took with it; U+FFFD at every other byte
lossy_at(b, i) ==
    LET v == high_at(b, i)
    IN  IF ~IsHighByte(b[i]) THEN <<b[i]>>
        ELSE IF ~is_continuation(v)
             THEN IF utf8_char_width(v) > 0 /\ accepted(b, i) = utf8_char_width(v)
                  THEN <<CharOf(decode_sequence(b, i, utf8_char_width(v)))>>
                  ELSE <<"U+FFFD">>
        ELSE IF \E j \in (i - 3)..(i - 1) :
                    /\ j >= 1
                    /\ IsHighByte(b[j])
                    /\ ~is_continuation(high_at(b, j))
                    /\ accepted(b, j) > i - j
             THEN <<>>
        ELSE <<"U+FFFD">>

RECURSIVE lossy_between(_, _, _)
lossy_between(b, lo, hi) ==
    IF lo > hi THEN <<>>
    ELSE IF lo = hi THEN lossy_at(b, lo)
    ELSE LET mid == (lo + hi) \div 2
         IN  lossy_between(b, lo, mid) \o lossy_between(b, mid + 1, hi)

\* the decoding as it would be were every undecodable byte dropped, not replaced
from_utf8_dropping(b) ==
    SelectSeq(lossy_between(b, 1, Len(b)), LAMBDA ch : ch # "U+FFFD")

\* String::from_utf8_lossy (bytes up to 0x7F are their own text)
from_utf8_lossy(b) ==
    IF \A i \in 1..Len(b) : ~IsHighByte(b[i]) THEN b
    ELSE lossy_between(b, 1, Len(b))

Digits == <<"0", "1", "2", "3", "4", "5", "6", "7", "8", "9">>

\* the {} of format! on a usize: decimal, no padding
RECURSIVE to_decimal(_)
to_decimal(n) ==
    IF n < 10 THEN <<Digits[n + 1]>>
    ELSE to_decimal(n \div 10) \o <<Digits[(n % 10) + 1]>>

\* ------------------------------------------------------------- literals
\* lib.rs:37  "POST /api/chat"
PostPrefix ==
    <<"P","O","S","T"," ","/","a","p","i","/","c","h","a","t">>

\* lib.rs:60  "OPTIONS /api/chat"
OptionsPrefix ==
    <<"O","P","T","I","O","N","S"," ","/","a","p","i","/","c","h","a","t">>

\* lib.rs:39  "\r\n\r\n"
Separator ==
    <<"\r","\n","\r","\n">>

\* lib.rs:46  the format string up to its first {}
OkHead ==
    <<"H","T","T","P","/","1",".","1"," ","2","0","0"," ","O","K","\r","\n","C","o","n","t","e",
      "n","t","-","T","y","p","e",":"," ","a","p","p","l","i","c","a","t","i","o","n","/","j","s",
      "o","n","\r","\n","A","c","c","e","s","s","-","C","o","n","t","r","o","l","-","A","l","l",
      "o","w","-","O","r","i","g","i","n",":"," ","*","\r","\n","A","c","c","e","s","s","-","C",
      "o","n","t","r","o","l","-","A","l","l","o","w","-","M","e","t","h","o","d","s",":"," ","P",
      "O","S","T",","," ","O","P","T","I","O","N","S","\r","\n","A","c","c","e","s","s","-","C",
      "o","n","t","r","o","l","-","A","l","l","o","w","-","H","e","a","d","e","r","s",":"," ","C",
      "o","n","t","e","n","t","-","T","y","p","e","\r","\n","C","o","n","t","e","n","t","-","L",
      "e","n","g","t","h",":"," ">>

\* lib.rs:55  the whole 400 literal
BadRequestResponse ==
    <<"H","T","T","P","/","1",".","1"," ","4","0","0"," ","B","a","d"," ","R","e","q","u","e","s",
      "t","\r","\n","C","o","n","t","e","n","t","-","T","y","p","e",":"," ","t","e","x","t","/",
      "p","l","a","i","n","\r","\n","A","c","c","e","s","s","-","C","o","n","t","r","o","l","-",
      "A","l","l","o","w","-","O","r","i","g","i","n",":"," ","*","\r","\n","A","c","c","e","s",
      "s","-","C","o","n","t","r","o","l","-","A","l","l","o","w","-","M","e","t","h","o","d","s",
      ":"," ","P","O","S","T",","," ","O","P","T","I","O","N","S","\r","\n","A","c","c","e","s",
      "s","-","C","o","n","t","r","o","l","-","A","l","l","o","w","-","H","e","a","d","e","r","s",
      ":"," ","C","o","n","t","e","n","t","-","T","y","p","e","\r","\n","C","o","n","t","e","n",
      "t","-","L","e","n","g","t","h",":"," ","2","2","\r","\n","\r","\n","I","n","v","a","l","i",
      "d"," ","J","S","O","N"," ","p","a","y","l","o","a","d">>

\* lib.rs:62  the whole OPTIONS literal
OptionsResponse ==
    <<"H","T","T","P","/","1",".","1"," ","2","0","0"," ","O","K","\r","\n","A","c","c","e","s",
      "s","-","C","o","n","t","r","o","l","-","A","l","l","o","w","-","O","r","i","g","i","n",":",
      " ","*","\r","\n","A","c","c","e","s","s","-","C","o","n","t","r","o","l","-","A","l","l",
      "o","w","-","M","e","t","h","o","d","s",":"," ","P","O","S","T",","," ","O","P","T","I","O",
      "N","S","\r","\n","A","c","c","e","s","s","-","C","o","n","t","r","o","l","-","A","l","l",
      "o","w","-","H","e","a","d","e","r","s",":"," ","C","o","n","t","e","n","t","-","T","y","p",
      "e","\r","\n","C","o","n","t","e","n","t","-","L","e","n","g","t","h",":"," ","0","\r","\n",
      "\r","\n">>

\* the 405 literal as it would be were the CORS headers left off it
NotAllowedResponseNoCors ==
    <<"H","T","T","P","/","1",".","1"," ","4","0","5"," ","M","e","t","h","o","d"," ","N","o","t",
      " ","A","l","l","o","w","e","d","\r","\n","C","o","n","t","e","n","t","-","T","y","p","e",
      ":"," ","t","e","x","t","/","p","l","a","i","n","\r","\n","C","o","n","t","e","n","t","-",
      "L","e","n","g","t","h",":"," ","2","9","\r","\n","\r","\n","M","e","t","h","o","d"," ","n",
      "o","t"," ","a","l","l","o","w","e","d"," ","f","o","r"," ","t","h","i","s"," ","r","o","u",
      "t","e">>

\* lib.rs:66  the whole 405 literal
NotAllowedResponse ==
    <<"H","T","T","P","/","1",".","1"," ","4","0","5"," ","M","e","t","h","o","d"," ","N","o","t",
      " ","A","l","l","o","w","e","d","\r","\n","C","o","n","t","e","n","t","-","T","y","p","e",
      ":"," ","t","e","x","t","/","p","l","a","i","n","\r","\n","A","c","c","e","s","s","-","C",
      "o","n","t","r","o","l","-","A","l","l","o","w","-","O","r","i","g","i","n",":"," ","*",
      "\r","\n","A","c","c","e","s","s","-","C","o","n","t","r","o","l","-","A","l","l","o","w",
      "-","M","e","t","h","o","d","s",":"," ","P","O","S","T",","," ","O","P","T","I","O","N","S",
      "\r","\n","A","c","c","e","s","s","-","C","o","n","t","r","o","l","-","A","l","l","o","w",
      "-","H","e","a","d","e","r","s",":"," ","C","o","n","t","e","n","t","-","T","y","p","e",
      "\r","\n","C","o","n","t","e","n","t","-","L","e","n","g","t","h",":"," ","2","9","\r","\n",
      "\r","\n","M","e","t","h","o","d"," ","n","o","t"," ","a","l","l","o","w","e","d"," ","f",
      "o","r"," ","t","h","i","s"," ","r","o","u","t","e">>

\* lib.rs:76  "Rusty"
RustyName ==
    <<"R","u","s","t","y">>

\* lib.rs:77  "You said: "
SaidPrefix ==
    <<"Y","o","u"," ","s","a","i","d",":"," ">>


\* ------------------------------------------------------------- serde_json
\* the ChatMessage of lib.rs:7-11
ChatMessage(u, m) == [user |-> u, message |-> m]

Whitespace == {" ", "\n", "\t", "\r"}

\* a character below 0x20, which a JSON string may not hold unescaped
IsControl(ch) == ch \in {"\n", "\r", "\t", "\f"} \/ (Len(ch) > 1 /\ CodePoint(ch) < 32)

DigitChars == {"0", "1", "2", "3", "4", "5", "6", "7", "8", "9"}

Failed == [ok |-> FALSE, pos |-> 0, val |-> <<>>]

Parsed(p, v) == [ok |-> TRUE, pos |-> p, val |-> v]

\* Deserializer::parse_whitespace: the first position from i on that holds no
\* whitespace (Len(s) + 1 at the end of input)
RECURSIVE parse_whitespace(_, _)
parse_whitespace(s, i) ==
    IF i <= Len(s) /\ s[i] \in Whitespace THEN parse_whitespace(s, i + 1) ELSE i

IsAt(s, i, ch) == i <= Len(s) /\ s[i] = ch

\* the character an escape letter other than u stands for
Unescape(ch) ==
    CASE ch = "\"" -> "\""
      [] ch = "\\" -> "\\"
      [] ch = "/" -> "/"
      [] ch = "b" -> "U+0008"
      [] ch = "f" -> "\f"
      [] ch = "n" -> "\n"
      [] ch = "r" -> "\r"
      [] ch = "t" -> "\t"
      [] OTHER -> NoneVal

\* decode_hex_escape: the number the four hexadecimal digits at i write
decode_hex_escape(s, i) ==
    IF i + 3 <= Len(s) /\ \A k \in i..(i + 3) : IsHexDigit(s[k])
    THEN Parsed(i + 4, (4096 * HexVal(s[i])) + (256 * HexVal(s[i + 1]))
                         + (16 * HexVal(s[i + 2])) + HexVal(s[i + 3]))
    ELSE Failed

\* parse_escape with validation: the character of the escape whose letter is at i;
\* \u takes four digits, and a high surrogate takes the \u and the low surrogate
\* that must follow it; a surrogate without its pair is an error
parse_escape(s, i) ==
    IF i > Len(s) THEN Failed
    ELSE IF s[i] = "u"
         THEN LET n1 == decode_hex_escape(s, i + 1)
                  n2 == decode_hex_escape(s, i + 7)
              IN  IF ~n1.ok THEN Failed
                  ELSE IF n1.val >= 56320 /\ n1.val <= 57343 THEN Failed
                  ELSE IF n1.val >= 55296 /\ n1.val <= 56319
                       THEN IF /\ IsAt(s, i + 5, "\\")
                               /\ IsAt(s, i + 6, "u")
                               /\ n2.ok
                               /\ n2.val >= 56320
                               /\ n2.val <= 57343
                            THEN Parsed(n2.pos, CharOf(((n1.val - 55296) * 1024)
                                                        + (n2.val - 56320) + 65536))
                            ELSE Failed
                  ELSE Parsed(n1.pos, CharOf(n1.val))
    ELSE IF Unescape(s[i]) = NoneVal THEN Failed
    ELSE Parsed(i + 1, Unescape(s[i]))

\* the characters of a string from position i (just after the opening quote) to
\* its closing quote; acc is what has been read so far
RECURSIVE parse_str_from(_, _, _)
parse_str_from(s, i, acc) ==
    IF i > Len(s) THEN Failed
    ELSE IF s[i] = "\"" THEN Parsed(i + 1, acc)
    ELSE IF s[i] = "\\"
         THEN LET e == parse_escape(s, i + 1)
              IN  IF ~e.ok THEN Failed
                  ELSE parse_str_from(s, e.pos, Append(acc, e.val))
    ELSE IF IsControl(s[i]) THEN Failed
    ELSE parse_str_from(s, i + 1, Append(acc, s[i]))

\* ignore_escape: the position after the escape whose letter is at i; the four
\* digits of a \u are taken whatever number they write
ignore_escape(s, i) ==
    IF i > Len(s) THEN Failed
    ELSE IF s[i] = "u" THEN decode_hex_escape(s, i + 1)
    ELSE IF Unescape(s[i]) = NoneVal THEN Failed
    ELSE Parsed(i + 1, <<>>)

\* ignore_str: the position after the closing quote of the string whose content
\* starts at i
RECURSIVE ignore_str(_, _)
ignore_str(s, i) ==
    IF i > Len(s) THEN Failed
    ELSE IF s[i] = "\"" THEN Parsed(i + 1, <<>>)
    ELSE IF s[i] = "\\"
         THEN LET e == ignore_escape(s, i + 1)
              IN  IF ~e.ok THEN Failed ELSE ignore_str(s, e.pos)
    ELSE IF IsControl(s[i]) THEN Failed
    ELSE ignore_str(s, i + 1)

\* a JSON string whose opening quote is expected at i, after whitespace (this is
\* deserialize_string: anything but a string is an invalid type)
parse_str(s, i) ==
    LET j == parse_whitespace(s, i)
    IN  IF j <= Len(s) /\ s[j] = "\"" THEN parse_str_from(s, j + 1, <<>>) ELSE Failed

\* the first position from i on that holds no digit
RECURSIVE skip_digits(_, _)
skip_digits(s, i) ==
    IF i <= Len(s) /\ s[i] \in DigitChars THEN skip_digits(s, i + 1) ELSE i

\* a JSON number at i: -? (0 | [1-9][0-9]*) (. [0-9]+)? ([eE] [+-]? [0-9]+)?
parse_number(s, i) ==
    LET a == IF IsAt(s, i, "-") THEN i + 1 ELSE i
        b == IF IsAt(s, a, "0") THEN a + 1 ELSE skip_digits(s, a)
        intOk == b > a /\ ~(IsAt(s, a, "0") /\ b <= Len(s) /\ s[b] \in DigitChars)
        c == IF IsAt(s, b, ".") THEN skip_digits(s, b + 1) ELSE b
        fracOk == IsAt(s, b, ".") => c > b + 1
        e0 == IF IsAt(s, c, "e") \/ IsAt(s, c, "E") THEN c + 1 ELSE c
        e1 == IF e0 > c /\ (IsAt(s, e0, "+") \/ IsAt(s, e0, "-")) THEN e0 + 1 ELSE e0
        d == IF e0 > c THEN skip_digits(s, e1) ELSE c
        expOk == e0 > c => d > e1
    IN  IF intOk /\ fracOk /\ expOk THEN Parsed(d, <<>>) ELSE Failed

\* parse_ident: the rest of true, false or null (the input ending inside the word
\* is an error as any other character is)
parse_ident(s, i, word) ==
    IF i + Len(word) - 1 <= Len(s) /\ SubSeq(s, i, i + Len(word) - 1) = word
    THEN Parsed(i + Len(word), <<>>) ELSE Failed

\* IgnoredAny: any one JSON value from i on, its content dropped
RECURSIVE ignore_value(_, _), ignore_elements(_, _), ignore_members(_, _)
ignore_value(s, i) ==
    LET j == parse_whitespace(s, i)
    IN  IF j > Len(s) THEN Failed
        ELSE CASE s[j] = "\"" -> ignore_str(s, j + 1)
               [] s[j] = "[" ->
                    LET k == parse_whitespace(s, j + 1)
                    IN  IF IsAt(s, k, "]") THEN Parsed(k + 1, <<>>) ELSE ignore_elements(s, k)
               [] s[j] = "{" ->
                    LET k == parse_whitespace(s, j + 1)
                    IN  IF IsAt(s, k, "}") THEN Parsed(k + 1, <<>>) ELSE ignore_members(s, k)
               [] s[j] = "-" \/ s[j] \in DigitChars -> parse_number(s, j)
               [] s[j] = "t" -> parse_ident(s, j, <<"t", "r", "u", "e">>)
               [] s[j] = "f" -> parse_ident(s, j, <<"f", "a", "l", "s", "e">>)
               [] s[j] = "n" -> parse_ident(s, j, <<"n", "u", "l", "l">>)
               [] OTHER -> Failed

\* the elements of an array from i (an element is due there) to its closing ]
ignore_elements(s, i) ==
    LET v == ignore_value(s, i)
        k == parse_whitespace(s, v.pos)
    IN  IF ~v.ok THEN Failed
        ELSE IF IsAt(s, k, "]") THEN Parsed(k + 1, <<>>)
        ELSE IF IsAt(s, k, ",") THEN ignore_elements(s, k + 1)
        ELSE Failed

\* the members of an object from i (a key is due there) to its closing }
ignore_members(s, i) ==
    LET q == parse_whitespace(s, i)
        key == IF IsAt(s, q, "\"") THEN ignore_str(s, q + 1) ELSE Failed
        c == parse_whitespace(s, key.pos)
        v == ignore_value(s, c + 1)
        k == parse_whitespace(s, v.pos)
    IN  IF ~key.ok \/ ~IsAt(s, c, ":") \/ ~v.ok THEN Failed
        ELSE IF IsAt(s, k, "}") THEN Parsed(k + 1, <<>>)
        ELSE IF IsAt(s, k, ",") THEN ignore_members(s, k + 1)
        ELSE Failed

NoField == <<NoneVal>>

FieldUser == <<"u", "s", "e", "r">>

FieldMessage == <<"m", "e", "s", "s", "a", "g", "e">>

\* the derived visit_map of ChatMessage over MapAccess, one step an operator: i is
\* where a key or the closing } is due, first tells whether no member has been read
\* yet (a comma must come before every later key), u and m are the fields read so
\* far.  A repeated field, a value that is no string and, at the closing }, a field
\* still missing are errors; a member with any other key is skipped
RECURSIVE visit_map(_, _, _, _, _)

\* v is the member's value as parsed, name its key
visit_value(s, name, v, u, m) ==
    IF ~v.ok THEN Failed
    ELSE visit_map(s, v.pos, FALSE,
                   IF name = FieldUser THEN v.val ELSE u,
                   IF name = FieldMessage THEN v.val ELSE m)

\* key is the member's key as parsed, c where its colon is due
visit_colon(s, key, c, u, m) ==
    IF (key.val = FieldUser /\ u # NoField) \/ (key.val = FieldMessage /\ m # NoField)
    THEN Failed
    ELSE IF ~IsAt(s, c, ":") THEN Failed
    ELSE IF key.val = FieldUser \/ key.val = FieldMessage
         THEN visit_value(s, key.val, parse_str(s, c + 1), u, m)
    ELSE visit_value(s, key.val, ignore_value(s, c + 1), u, m)

visit_key(s, key, u, m) ==
    IF ~key.ok THEN Failed ELSE visit_colon(s, key, parse_whitespace(s, key.pos), u, m)

\* a is where a key is due
visit_member(s, a, u, m) ==
    IF ~IsAt(s, a, "\"") THEN Failed ELSE visit_key(s, parse_str(s, a), u, m)

\* j is the first position that holds no whitespace
visit_at(s, j, first, u, m) ==
    IF j > Len(s) THEN Failed
    ELSE IF s[j] = "}"
         THEN IF u = NoField \/ m = NoField THEN Failed
              ELSE Parsed(j + 1, ChatMessage(u, m))
    ELSE IF first THEN visit_member(s, j, u, m)
    ELSE IF s[j] = "," THEN visit_member(s, parse_whitespace(s, j + 1), u, m)
    ELSE Failed

visit_map(s, i, first, u, m) == visit_at(s, parse_whitespace(s, i), first, u, m)

\* the derived visit_seq of ChatMessage over SeqAccess, then end_seq: exactly two
\* strings, user then message; i is just after the opening [
visit_seq(s, i) ==
    LET j == parse_whitespace(s, i)
        u == parse_str(s, j)
        c == parse_whitespace(s, u.pos)
        m == parse_str(s, c + 1)
        k == parse_whitespace(s, m.pos)
    IN  IF j > Len(s) \/ s[j] = "]" \/ ~u.ok THEN Failed
        ELSE IF ~IsAt(s, c, ",") \/ IsAt(s, parse_whitespace(s, c + 1), "]") \/ ~m.ok THEN Failed
        ELSE IF IsAt(s, k, "]") THEN Parsed(k + 1, ChatMessage(u.val, m.val))
        ELSE Failed

\* Deserializer::deserialize_struct: an object or an array, j the first position
\* that holds no whitespace
deserialize_struct(s, j) ==
    IF IsAt(s, j, "{") THEN visit_map(s, j + 1, TRUE, NoField, NoField)
    ELSE IF IsAt(s, j, "[") THEN visit_seq(s, j + 1)
    ELSE Failed

\* Deserializer::end: nothing but whitespace may follow the value r.  The Result is
\* a sequence: <<>> for Err, <<message>> for Ok
end(s, r) ==
    IF r.ok /\ parse_whitespace(s, r.pos) > Len(s) THEN <<r.val>> ELSE <<>>

\* serde_json::from_str::<ChatMessage>
from_str(s) == end(s, deserialize_struct(s, parse_whitespace(s, 1)))

\* format_escaped_str_contents: what the serializer writes for one character
Escape(ch) ==
    CASE ch = "\"" -> <<"\\", "\"">>
      [] ch = "\\" -> <<"\\", "\\">>
      [] ch = "U+0008" -> <<"\\", "b">>
      [] ch = "\f" -> <<"\\", "f">>
      [] ch = "\n" -> <<"\\", "n">>
      [] ch = "\r" -> <<"\\", "r">>
      [] ch = "\t" -> <<"\\", "t">>
      [] Len(ch) > 1 /\ CodePoint(ch) < 32 ->
            <<"\\", "u", "0", "0", SubSeq(HexLower, (CodePoint(ch) \div 16) + 1, (CodePoint(ch) \div 16) + 1),
              SubSeq(HexLower, (CodePoint(ch) % 16) + 1, (CodePoint(ch) % 16) + 1)>>
      [] OTHER -> <<ch>>

RECURSIVE escaped_between(_, _, _)
escaped_between(s, lo, hi) ==
    IF lo > hi THEN <<>>
    ELSE IF lo = hi THEN Escape(s[lo])
    ELSE LET mid == (lo + hi) \div 2
         IN  escaped_between(s, lo, mid) \o escaped_between(s, mid + 1, hi)

\* format_escaped_str without its quotes
format_escaped_str(s) ==
    IF \A i \in 1..Len(s) : Escape(s[i]) = <<s[i]>> THEN s
    ELSE escaped_between(s, 1, Len(s))

\* to_string as it would be were the fields written without escaping
to_string_unescaped(msg) ==
    <<"{", "\"">> \o FieldUser \o <<"\"", ":", "\"">> \o msg.user
        \o <<"\"", ",", "\"">> \o FieldMessage \o <<"\"", ":", "\"">>
        \o msg.message \o <<"\"", "}">>

\* serde_json::to_string of a ChatMessage: {"user":"...","message":"..."}
to_string(msg) ==
    <<"{", "\"">> \o FieldUser \o <<"\"", ":", "\"">> \o format_escaped_str(msg.user)
        \o <<"\"", ",", "\"">> \o FieldMessage \o <<"\"", ":", "\"">>
        \o format_escaped_str(msg.message) \o <<"\"", "}">>

\* ------------------------------------------------------------- the handler
\* process_message as it would be were the sender's name passed through
process_message_keeps_user(message) ==
    ChatMessage(message.user, SaidPrefix \o message.message)

\* process_message (lib.rs:74-79)
process_message(message) ==
    ChatMessage(RustyName, SaidPrefix \o message.message)

\* the candidate body as it would be were it cut after the last separator
body_of_last(request) ==
    LET hits == {i \in 0..(Len(request) - 4) : SubSeq(request, i + 1, i + 4) = Separator}
        body_start == IF hits = {} THEN 0 ELSE (CHOOSE i \in hits : \A j \in hits : i >= j) + 4
    IN  Drop(request, body_start)

\* the candidate body as it would be were two plain newlines a separator too
body_of_lenient(request) ==
    LET hits == {i \in 0..(Len(request) - 2) :
                    \/ SubSeq(request, i + 1, i + 2) = <<"\n", "\n">>
                    \/ i + 4 <= Len(request) /\ SubSeq(request, i + 1, i + 4) = Separator}
        at == IF hits = {} THEN -1 ELSE CHOOSE i \in hits : \A j \in hits : i <= j
        body_start == IF at = -1 THEN 0 ELSE IF request[at + 1] = "\n" THEN at + 2 ELSE at + 4
    IN  Drop(request, body_start)

\* lib.rs:39-40  the candidate body of a POST
body_of(request) ==
    LET at == find(request, Separator)
        body_start == IF at = -1 THEN 0 ELSE at + 4
    IN  Drop(request, body_start)

\* lib.rs:45-49  the 200 response around the encoded reply
ok_response(response_json) ==
    OkHead \o to_decimal(len(response_json)) \o Separator \o response_json

\* ------------------------------------------------------------- requests
\* POST /api/chat HTTP/1.1 CRLF CRLF {"user":"Alice","message":"hi"}
ReqAlice ==
    <<"P","O","S","T"," ","/","a","p","i","/","c","h","a","t"," ","H","T","T","P","/","1",".","1",
      "\r","\n","\r","\n","{","\"","u","s","e","r","\"",":","\"","A","l","i","c","e","\"",",",
      "\"","m","e","s","s","a","g","e","\"",":","\"","h","i","\"","}">>

\* POST /api/chat HTTP/1.1 CRLF CRLF {"user":"Bob","message":"yo"}
ReqBob ==
    <<"P","O","S","T"," ","/","a","p","i","/","c","h","a","t"," ","H","T","T","P","/","1",".","1",
      "\r","\n","\r","\n","{","\"","u","s","e","r","\"",":","\"","B","o","b","\"",",","\"","m",
      "e","s","s","a","g","e","\"",":","\"","y","o","\"","}">>

\* GET /anything HTTP/1.1 CRLF CRLF
ReqGet ==
    <<"G","E","T"," ","/","a","n","y","t","h","i","n","g"," ","H","T","T","P","/","1",".","1",
      "\r","\n","\r","\n">>

\* OPTIONS /api/chat HTTP/1.1 CRLF CRLF
ReqOptions ==
    <<"O","P","T","I","O","N","S"," ","/","a","p","i","/","c","h","a","t"," ","H","T","T","P","/",
      "1",".","1","\r","\n","\r","\n">>

\* OPTIONS /api/chat/x HTTP/1.1 CRLF Origin: x CRLF CRLF body
ReqOptionsExtra ==
    <<"O","P","T","I","O","N","S"," ","/","a","p","i","/","c","h","a","t","/","x"," ","H","T","T",
      "P","/","1",".","1","\r","\n","O","r","i","g","i","n",":"," ","x","\r","\n","\r","\n","b",
      "o","d","y">>

\* OPTIONS /other HTTP/1.1 CRLF CRLF
ReqOptionsOther ==
    <<"O","P","T","I","O","N","S"," ","/","o","t","h","e","r"," ","H","T","T","P","/","1",".","1",
      "\r","\n","\r","\n">>

\* POST /api/chat HTTP/1.1 CRLF Content-Type: application/json CRLF CRLF {"message":"m1", "user":"Al"}
ReqWithHeaders ==
    <<"P","O","S","T"," ","/","a","p","i","/","c","h","a","t"," ","H","T","T","P","/","1",".","1",
      "\r","\n","C","o","n","t","e","n","t","-","T","y","p","e",":"," ","a","p","p","l","i","c",
      "a","t","i","o","n","/","j","s","o","n","\r","\n","\r","\n","{","\"","m","e","s","s","a",
      "g","e","\"",":","\"","m","1","\"",","," ","\"","u","s","e","r","\"",":","\"","A","l","\"",
      "}">>

\* POST /api/chat HTTP/1.1 CRLF CRLF hello
ReqNotJson ==
    <<"P","O","S","T"," ","/","a","p","i","/","c","h","a","t"," ","H","T","T","P","/","1",".","1",
      "\r","\n","\r","\n","h","e","l","l","o">>

\* POST /api/chat CRLF CRLF {"user":"A"}
ReqMissingField ==
    <<"P","O","S","T"," ","/","a","p","i","/","c","h","a","t","\r","\n","\r","\n","{","\"","u",
      "s","e","r","\"",":","\"","A","\"","}">>

\* POST /api/chat CRLF CRLF {"user":"A","message":7}
ReqMistyped ==
    <<"P","O","S","T"," ","/","a","p","i","/","c","h","a","t","\r","\n","\r","\n","{","\"","u",
      "s","e","r","\"",":","\"","A","\"",",","\"","m","e","s","s","a","g","e","\"",":","7","}">>

\* POST /api/chat CRLF CRLF {"user":"A","user":"B","message":"c"}
ReqDuplicate ==
    <<"P","O","S","T"," ","/","a","p","i","/","c","h","a","t","\r","\n","\r","\n","{","\"","u",
      "s","e","r","\"",":","\"","A","\"",",","\"","u","s","e","r","\"",":","\"","B","\"",",","\"",
      "m","e","s","s","a","g","e","\"",":","\"","c","\"","}">>

\* POST /api/chat CRLF CRLF {"user":"A","message":"b"}x
ReqTrailing ==
    <<"P","O","S","T"," ","/","a","p","i","/","c","h","a","t","\r","\n","\r","\n","{","\"","u",
      "s","e","r","\"",":","\"","A","\"",",","\"","m","e","s","s","a","g","e","\"",":","\"","b",
      "\"","}","x">>

\* POST /api/chat CRLF CRLF ["Al","hi"]
ReqArray ==
    <<"P","O","S","T"," ","/","a","p","i","/","c","h","a","t","\r","\n","\r","\n","[","\"","A",
      "l","\"",",","\"","h","i","\"","]">>

\* POST /api/chat CRLF CRLF {"id":[1,{"k":null}], "message":"m", "user":"A"} LF
ReqExtraField ==
    <<"P","O","S","T"," ","/","a","p","i","/","c","h","a","t","\r","\n","\r","\n","{","\"","i",
      "d","\"",":","[","1",",","{","\"","k","\"",":","n","u","l","l","}","]",","," ","\"","m","e",
      "s","s","a","g","e","\"",":","\"","m","\"",","," ","\"","u","s","e","r","\"",":","\"","A",
      "\"","}","\n">>

\* POST /api/chat CRLF CRLF {"user":"A","message":"q\"\\\n<e-acute>"}, the e-acute as bytes xC3 xA9
ReqEscapes ==
    <<"P","O","S","T"," ","/","a","p","i","/","c","h","a","t","\r","\n","\r","\n","{","\"","u",
      "s","e","r","\"",":","\"","A","\"",",","\"","m","e","s","s","a","g","e","\"",":","\"","q",
      "\\","\"","\\","\\","\\","n","xC3","xA9","\"","}">>

\* POST /api/chat CRLF CRLF {"user":"A","message":"<xFF>"}, xFF no valid UTF-8
ReqInvalidUtf8 ==
    <<"P","O","S","T"," ","/","a","p","i","/","c","h","a","t","\r","\n","\r","\n","{","\"","u",
      "s","e","r","\"",":","\"","A","\"",",","\"","m","e","s","s","a","g","e","\"",":","\"","xFF",
      "\"","}">>

\* POST /api/chat CRLF CRLF {"user":"Rusty","message":""}
ReqRustyEmpty ==
    <<"P","O","S","T"," ","/","a","p","i","/","c","h","a","t","\r","\n","\r","\n","{","\"","u",
      "s","e","r","\"",":","\"","R","u","s","t","y","\"",",","\"","m","e","s","s","a","g","e",
      "\"",":","\"","\"","}">>

\* POST /api/chat HTTP/1.1 CRLF CRLF
ReqEmptyBody ==
    <<"P","O","S","T"," ","/","a","p","i","/","c","h","a","t"," ","H","T","T","P","/","1",".","1",
      "\r","\n","\r","\n">>

\* POST /api/chat HTTP/1.1 CRLF
ReqNoSeparator ==
    <<"P","O","S","T"," ","/","a","p","i","/","c","h","a","t"," ","H","T","T","P","/","1",".","1",
      "\r","\n">>

\* POST /api/chat HTTP/1.1 LF LF {"user":"A","message":"b"}
ReqLfLf ==
    <<"P","O","S","T"," ","/","a","p","i","/","c","h","a","t"," ","H","T","T","P","/","1",".","1",
      "\n","\n","{","\"","u","s","e","r","\"",":","\"","A","\"",",","\"","m","e","s","s","a","g",
      "e","\"",":","\"","b","\"","}">>

\* POST /api/chat HTTP/1.1 LF LF X CRLF CRLF {"user":"A","message":"b"}
ReqLfLfThenCrLf ==
    Take(ReqLfLf, 25) \o <<"X">> \o Separator \o Drop(ReqLfLf, 25)

\* POST /api/chat CRLF CRLF {"user":"A", CRLF CRLF "message":"b"}
ReqTwoSeparators ==
    <<"P","O","S","T"," ","/","a","p","i","/","c","h","a","t","\r","\n","\r","\n","{","\"","u",
      "s","e","r","\"",":","\"","A","\"",",","\r","\n","\r","\n","\"","m","e","s","s","a","g","e",
      "\"",":","\"","b","\"","}">>

\* POST /api/chatroom HTTP/1.1 CRLF CRLF {"user":"A","message":"b"}
ReqChatroom ==
    <<"P","O","S","T"," ","/","a","p","i","/","c","h","a","t","r","o","o","m"," ","H","T","T","P",
      "/","1",".","1","\r","\n","\r","\n","{","\"","u","s","e","r","\"",":","\"","A","\"",",",
      "\"","m","e","s","s","a","g","e","\"",":","\"","b","\"","}">>

\* GET /api/chat HTTP/1.1 CRLF CRLF
ReqGetChat ==
    <<"G","E","T"," ","/","a","p","i","/","c","h","a","t"," ","H","T","T","P","/","1",".","1",
      "\r","\n","\r","\n">>

\* post /api/chat CRLF CRLF {"user":"A","message":"b"}
ReqLowerPost ==
    <<"p","o","s","t"," ","/","a","p","i","/","c","h","a","t","\r","\n","\r","\n","{","\"","u",
      "s","e","r","\"",":","\"","A","\"",",","\"","m","e","s","s","a","g","e","\"",":","\"","b",
      "\"","}">>

\* a space, then POST /api/chat CRLF CRLF {"user":"A","message":"b"}
ReqLeadingSpace ==
    <<" ","P","O","S","T"," ","/","a","p","i","/","c","h","a","t","\r","\n","\r","\n","{","\"",
      "u","s","e","r","\"",":","\"","A","\"",",","\"","m","e","s","s","a","g","e","\"",":","\"",
      "b","\"","}">>

\* POST /api
ReqShortPost ==
    <<"P","O","S","T"," ","/","a","p","i">>

\* the bytes xFF xC3
ReqGarbage ==
    <<"xFF","xC3">>

\* POST /api/chat{"user":"A","message":"b"}
ReqGlued ==
    Take(ReqTwoSeparators, 14) \o Drop(ReqLowerPost, 18)

\* PO<xFF>ST /api/chat CRLF CRLF {"user":"A","message":"b"}
ReqBrokenPost ==
    <<"P", "O", "xFF", "S", "T">> \o Drop(ReqLowerPost, 4)

Pad(n) == [i \in 1..n |-> "a"]

\* ReqAlice with a header X: aaa...a, so long that the buffer ends inside the body,
\* after {"user":"Alice","
ReqLong ==
    Take(ReqAlice, 25) \o <<"X", ":", " ">> \o Pad(BufSize - 49) \o Drop(ReqAlice, 23)

\* ReqAlice with a header so long that the request fills the buffer to its last
\* byte, and ReqGet sent behind it on the same connection
ReqPipelined ==
    Take(ReqAlice, 25) \o <<"X", ":", " ">> \o Pad(BufSize - 63) \o Drop(ReqAlice, 23)
        \o ReqGet

\* the classification as it would be were OPTIONS matched as the whole request
classify_options_exact(request) ==
    IF starts_with(request, PostPrefix) THEN "post"
    ELSE IF request = OptionsPrefix THEN "options"
    ELSE "other"

\* the classification as it would be were OPTIONS matched on the verb alone
classify_any_options(request) ==
    IF starts_with(request, PostPrefix) THEN "post"
    ELSE IF starts_with(request, <<"O", "P", "T", "I", "O", "N", "S">>) THEN "options"
    ELSE "other"

\* lib.rs:37, 60, 64  the branch of the if / else if / else
classify(request) ==
    IF starts_with(request, PostPrefix) THEN "post"
    ELSE IF starts_with(request, OptionsPrefix) THEN "options"
    ELSE "other"

\* lib.rs:42-50  the Ok arm: chat_message is the decoded message, response what
\* process_message returned.  A task's locals are kept as chat_message, reply
\* (the first response of the source; <<>> while process_message has not been
\* called) and response (the text handed to write_all)
ok_arm(chat_message, response) ==
    [chat_message |-> <<chat_message>>, reply |-> <<response>>,
     response |-> ok_response(to_string(response))]

\* lib.rs:41-59  the match on the Result of from_str
post_branch(parsed) ==
    IF parsed # <<>> THEN ok_arm(parsed[1], process_message(parsed[1]))
    ELSE [chat_message |-> <<>>, reply |-> <<>>, response |-> BadRequestResponse]

\* lib.rs:37-68  the three branches
respond(request) ==
    IF classify(request) = "post" THEN post_branch(from_str(body_of(request)))
    ELSE IF classify(request) = "options"
         THEN [chat_message |-> <<>>, reply |-> <<>>, response |-> OptionsResponse]
    ELSE [chat_message |-> <<>>, reply |-> <<>>, response |-> NotAllowedResponse]

\* lib.rs:35-68, everything the task does between its read and its write, none of
\* which awaits: decode the bytes read, classify, decode the body, transform, frame
handle(buffer) == respond(from_utf8_lossy(buffer))

\* ------------------------------------------------------------- state
VARIABLES
    run,            \* where the process stands: "bind" and "accept" inside Rusty::run,
                    \* "returned" once run has returned its error and the runtime
                    \* still runs, "exited" once main has returned
    messages,       \* Rusty.messages, the Vec behind the Arc<Mutex<..>>
    backlog,        \* connections established and not yet accepted, oldest first
    peer,           \* the peer's end of each connection: "none", "open", "shut" (its
                    \* FIN has arrived), "reset" (its RST has arrived) or
                    \* "shut_reset" (its FIN, then its RST)
    sent,           \* the bytes the peer has written on the connection
    pc,             \* the connection's task: "none", "read", "write", "done",
                    \* "panicked" or "aborted"
    buffer,         \* task local: &buffer[..n], the bytes its read returned
    chat_message,   \* task local: the decoded ChatMessage, <<>> when there is none
    reply,          \* task local: what process_message returned, <<>> when not called
    response,       \* task local: the framed response handed to write_all
    wire,           \* the bytes write_all has handed to the socket so far
    model_messages, \* the web interface: Model.messages, the history shown
    input,          \* the web interface: Model.input
    requests,       \* the web interface: the futures given to spawn_local, one per
                    \* Send, each with the message it posts and whether it has ended
    mailbox         \* the web interface: the Msg values handed to link.send_message
                    \* and not yet passed to update, oldest first

\* the state of the web interface
ui == <<model_messages, input, requests, mailbox>>

\* the state of the server and its connections
server == <<run, messages, backlog, peer, sent, pc, buffer, chat_message, reply, response, wire>>

vars == <<run, messages, backlog, peer, sent, pc, buffer, chat_message, reply, response, wire,
          model_messages, input, requests, mailbox>>

Conns == 1..MaxConns

\* the requests a peer sends under Spec
Requests == {ReqAlice, ReqBob, ReqGet}

Terminal == {"done", "panicked", "aborted"}

\* the process is alive: run is under way, or has returned and main has not yet
Alive == {"accept", "returned"}

\* the peer's RST has arrived
Reset == {"reset", "shut_reset"}

\* the peer's FIN has arrived
Shut == {"shut", "shut_reset"}

\* Rusty::new (lib.rs:18-22) and the connections before any peer connects; the web
\* interface after Model::create (web_interface lib.rs:31-36)
Init ==
    /\ run = "bind"
    /\ messages = <<>>
    /\ backlog = <<>>
    /\ peer = [c \in Conns |-> "none"]
    /\ sent = [c \in Conns |-> <<>>]
    /\ pc = [c \in Conns |-> "none"]
    /\ buffer = [c \in Conns |-> <<>>]
    /\ chat_message = [c \in Conns |-> <<>>]
    /\ reply = [c \in Conns |-> <<>>]
    /\ response = [c \in Conns |-> <<>>]
    /\ wire = [c \in Conns |-> <<>>]
    /\ model_messages = <<>>
    /\ input = <<>>
    /\ requests = <<>>
    /\ mailbox = <<>>

\* ------------------------------------------------------------- the peers
\* (what the peers do once main has returned, when the process is gone, is left out)
\* a peer connects to the listening socket and waits in its backlog
PeerConnect(c) ==
    /\ run = "accept"
    /\ peer[c] = "none"
    /\ peer' = [peer EXCEPT ![c] = "open"]
    /\ backlog' = Append(backlog, c)
    /\ UNCHANGED ui
    /\ UNCHANGED <<run, messages, sent, pc, buffer, chat_message, reply, response, wire>>

\* the peer writes its request r
PeerSend(c, r) ==
    /\ run \in Alive
    /\ peer[c] = "open"
    /\ sent[c] = <<>>
    /\ sent' = [sent EXCEPT ![c] = r]
    /\ UNCHANGED ui
    /\ UNCHANGED <<run, messages, backlog, peer, pc, buffer, chat_message, reply, response, wire>>

\* the peer closes its sending side without having sent anything
PeerShutdown(c) ==
    /\ run \in Alive
    /\ peer[c] = "open"
    /\ sent[c] = <<>>
    /\ peer' = [peer EXCEPT ![c] = "shut"]
    /\ UNCHANGED ui
    /\ UNCHANGED <<run, messages, backlog, sent, pc, buffer, chat_message, reply, response, wire>>

\* the peer resets the connection while its task is at the read or in the write;
\* what it sent before, bytes or its FIN, stays in the socket for the read
PeerReset(c) ==
    /\ run \in Alive
    /\ peer[c] \in {"open", "shut"}
    /\ pc[c] \in {"read", "write"}
    /\ peer' = [peer EXCEPT ![c] = IF peer[c] = "shut" THEN "shut_reset" ELSE "reset"]
    /\ UNCHANGED ui
    /\ UNCHANGED <<run, messages, backlog, sent, pc, buffer, chat_message, reply, response, wire>>

\* ------------------------------------------------------------- Rusty::run
\* lib.rs:25  TcpListener::bind succeeds
Bind ==
    /\ run = "bind"
    /\ run' = "accept"
    /\ UNCHANGED ui
    /\ UNCHANGED <<messages, backlog, peer, sent, pc, buffer, chat_message, reply, response, wire>>

\* lib.rs:25  TcpListener::bind fails and ? returns the error
BindFail ==
    /\ run = "bind"
    /\ run' = "returned"
    /\ UNCHANGED ui
    /\ UNCHANGED <<messages, backlog, peer, sent, pc, buffer, chat_message, reply, response, wire>>

\* lib.rs:29-32  accept returns the oldest waiting connection; its Arc is cloned and
\* its task spawned, which starts at the read
Accept ==
    /\ run = "accept"
    /\ backlog # <<>>
    /\ pc' = [pc EXCEPT ![Head(backlog)] = "read"]
    /\ backlog' = Tail(backlog)
    /\ UNCHANGED ui
    /\ UNCHANGED <<run, messages, peer, sent, buffer, chat_message, reply, response, wire>>

\* lib.rs:29  accept fails and ? returns the error from run: the listener is
\* dropped and with it the connections waiting in it; the tasks spawned go on in
\* the runtime
AcceptFail ==
    /\ run = "accept"
    /\ run' = "returned"
    /\ backlog' = <<>>
    /\ UNCHANGED ui
    /\ UNCHANGED <<messages, peer, sent, pc, buffer, chat_message, reply, response, wire>>

\* main.rs:4-8  run's error comes out of the await, main returns it and the runtime
\* of #[tokio::main] is dropped: every task still at an await is dropped with it
MainReturns ==
    /\ run = "returned"
    /\ run' = "exited"
    /\ pc' = [c \in Conns |-> IF pc[c] \in {"read", "write"} THEN "aborted" ELSE pc[c]]
    /\ UNCHANGED ui
    /\ UNCHANGED <<messages, backlog, peer, sent, buffer, chat_message, reply, response, wire>>

\* ------------------------------------------------------------- the task
\* the task's locals once it has read bytes and run up to its write_all with h
takes(c, bytes, h) ==
    /\ buffer' = [buffer EXCEPT ![c] = bytes]
    /\ chat_message' = [chat_message EXCEPT ![c] = h.chat_message]
    /\ reply' = [reply EXCEPT ![c] = h.reply]
    /\ response' = [response EXCEPT ![c] = as_bytes(h.response)]

\* the read as it would be were the buffer one shared by all tasks and filled from
\* the first connection
ReadShared(c) ==
    /\ pc[c] = "read"
    /\ sent[c] # <<>> \/ peer[c] \in Shut
    /\ takes(c, Take(sent[1], BufSize), handle(Take(sent[1], BufSize)))
    /\ pc' = [pc EXCEPT ![c] = "write"]
    /\ UNCHANGED ui
    /\ UNCHANGED <<run, messages, backlog, peer, sent, wire>>

\* the read as it would be were the task to read on until it has all the peer sent
ReadToEnd(c) ==
    /\ pc[c] = "read"
    /\ sent[c] # <<>> \/ peer[c] \in Shut
    /\ takes(c, sent[c], handle(sent[c]))
    /\ pc' = [pc EXCEPT ![c] = "write"]
    /\ UNCHANGED ui
    /\ UNCHANGED <<run, messages, backlog, peer, sent, wire>>

\* lib.rs:33-49 / 54-56 / 62 / 66  the read returns the bytes that have arrived, at
\* most the buffer's 1024 (none at end of stream), also when the peer's reset has
\* come after them, and the task runs without awaiting up to its write_all
Read(c) ==
    /\ pc[c] = "read"
    /\ sent[c] # <<>> \/ peer[c] \in Shut
    /\ takes(c, Take(sent[c], BufSize), handle(Take(sent[c], BufSize)))
    /\ pc' = [pc EXCEPT ![c] = "write"]
    /\ UNCHANGED ui
    /\ UNCHANGED <<run, messages, backlog, peer, sent, wire>>

\* the failed read as it would be were the panic to take the process down
ReadFailAborts(c) ==
    /\ pc[c] = "read"
    /\ peer[c] = "reset"
    /\ sent[c] = <<>>
    /\ run' = "exited"
    /\ pc' = [d \in Conns |-> IF d = c THEN "panicked"
                              ELSE IF pc[d] \in {"read", "write"} THEN "aborted" ELSE pc[d]]
    /\ backlog' = <<>>
    /\ UNCHANGED ui
    /\ UNCHANGED <<messages, peer, sent, buffer, chat_message, reply, response, wire>>

\* lib.rs:34  the read fails, the peer's reset having come with nothing before it
\* left to read, and unwrap panics: the panic unwinds the task alone, its stream is
\* dropped
ReadFail(c) ==
    /\ pc[c] = "read"
    /\ peer[c] = "reset"
    /\ sent[c] = <<>>
    /\ pc' = [pc EXCEPT ![c] = "panicked"]
    /\ UNCHANGED ui
    /\ UNCHANGED <<run, messages, backlog, peer, sent, buffer, chat_message, reply, response, wire>>

\* lib.rs:50/57/63/67  inside write_all the socket takes only part of what is left
WriteShort(c) ==
    /\ pc[c] = "write"
    /\ peer[c] \notin Reset
    /\ Len(wire[c]) < MaxShortWrites * ShortWrite
    /\ Len(response[c]) - Len(wire[c]) > ShortWrite
    /\ wire' = [wire EXCEPT ![c] = Take(response[c], Len(wire[c]) + ShortWrite)]
    /\ UNCHANGED ui
    /\ UNCHANGED <<run, messages, backlog, peer, sent, pc, buffer, chat_message, reply, response>>

\* the end of the write as it would be were a completed handler to log the message
\* it decoded in the history
WriteRestLogs(c) ==
    /\ pc[c] = "write"
    /\ peer[c] \notin Reset
    /\ wire' = [wire EXCEPT ![c] = response[c]]
    /\ pc' = [pc EXCEPT ![c] = "done"]
    /\ messages' = messages \o chat_message[c]
    /\ UNCHANGED ui
    /\ UNCHANGED <<run, backlog, peer, sent, buffer, chat_message, reply, response>>

\* the end of the write as it would be were the connection kept alive: the task goes
\* back to read the connection's next request
WriteRestKeepAlive(c) ==
    /\ pc[c] = "write"
    /\ peer[c] \notin Reset
    /\ wire' = [wire EXCEPT ![c] = response[c]]
    /\ pc' = [pc EXCEPT ![c] = "read"]
    /\ UNCHANGED ui
    /\ UNCHANGED <<run, messages, backlog, peer, sent, buffer, chat_message, reply, response>>

\* lib.rs:50/57/63/67  write_all hands over what is left and returns Ok; the task
\* ends and its stream is dropped
WriteRest(c) ==
    /\ pc[c] = "write"
    /\ peer[c] \notin Reset
    /\ wire' = [wire EXCEPT ![c] = response[c]]
    /\ pc' = [pc EXCEPT ![c] = "done"]
    /\ UNCHANGED ui
    /\ UNCHANGED <<run, messages, backlog, peer, sent, buffer, chat_message, reply, response>>

\* lib.rs:50/57/63/67  a write inside write_all fails and unwrap panics
WriteFail(c) ==
    /\ pc[c] = "write"
    /\ peer[c] \in Reset
    /\ pc' = [pc EXCEPT ![c] = "panicked"]
    /\ UNCHANGED ui
    /\ UNCHANGED <<run, messages, backlog, peer, sent, buffer, chat_message, reply, response, wire>>

Next ==
    \/ Bind
    \/ BindFail
    \/ Accept
    \/ AcceptFail
    \/ MainReturns
    \/ \E c \in Conns : PeerConnect(c)
    \/ \E c \in Conns, r \in Requests : PeerSend(c, r)
    \/ \E c \in Conns : PeerShutdown(c)
    \/ \E c \in Conns : PeerReset(c)
    \/ \E c \in Conns : Read(c)
    \/ \E c \in Conns : ReadFail(c)
    \/ \E c \in Conns : WriteShort(c)
    \/ \E c \in Conns : WriteRest(c)
    \/ \E c \in Conns : WriteFail(c)

Spec == Init /\ [][Next]_vars

\* the requests a peer sends under SpecStream, and where it may cut one in two
StreamRequests == {ReqAlice, ReqGet, ReqLong, ReqPipelined}

Cuts == {9, 40}

\* the peer writes the first k bytes of its request r, and no more for now
PeerSendPart(c, r, k) ==
    /\ run \in Alive
    /\ peer[c] = "open"
    /\ sent[c] = <<>>
    /\ sent' = [sent EXCEPT ![c] = Take(r, k)]
    /\ UNCHANGED ui
    /\ UNCHANGED <<run, messages, backlog, peer, pc, buffer, chat_message, reply, response, wire>>

\* the peer writes what is left of its request r, wherever the task stands
PeerSendRest(c, r) ==
    /\ run \in Alive
    /\ peer[c] = "open"
    /\ sent[c] # <<>> /\ sent[c] # r /\ starts_with(r, sent[c])
    /\ sent' = [sent EXCEPT ![c] = r]
    /\ UNCHANGED ui
    /\ UNCHANGED <<run, messages, backlog, peer, pc, buffer, chat_message, reply, response, wire>>

\* one connection, whose peer sends requests longer than the buffer or in two pieces
NextStream ==
    \/ Bind
    \/ BindFail
    \/ Accept
    \/ AcceptFail
    \/ MainReturns
    \/ PeerConnect(1)
    \/ \E r \in StreamRequests : PeerSend(1, r)
    \/ \E r \in StreamRequests, k \in Cuts : PeerSendPart(1, r, k)
    \/ \E r \in StreamRequests : PeerSendRest(1, r)
    \/ PeerShutdown(1)
    \/ PeerReset(1)
    \/ Read(1)
    \/ ReadFail(1)
    \/ WriteShort(1)
    \/ WriteRest(1)
    \/ WriteFail(1)

SpecStream == Init /\ [][NextStream]_vars

\* the connections whose peer takes what is written to it; the peer of connection 1
\* may leave its socket undrained for ever, so that write_all never completes
Draining == Conns \ {1}

\* lib.rs:34  the step Read(c) as it shows on the task's position: the read returns
\* and the task comes to its write
PastRead(c) ==
    /\ pc[c] = "read"
    /\ sent[c] # <<>> \/ peer[c] \in Shut
    /\ pc' = [pc EXCEPT ![c] = "write"]

\* lib.rs:28-34, main.rs:4  the tokio runtime polls every task that can go on: the
\* accept loop when a connection waits in the listener, a connection's task when
\* bytes have arrived for its read or when its peer takes what it writes; once run
\* has returned, main returns. No peer is bound to connect or to send, and no
\* failure is bound to happen
FairSpec ==
    /\ Spec
    /\ WF_vars(Accept)
    /\ WF_vars(MainReturns)
    /\ \A c \in Conns : WF_pc(PastRead(c))
    /\ \A c \in Draining : WF_vars(WriteRest(c))

\* POST /api/chat CRLF CRLF {"user":"A","message":"\u0041\u00e9\u0001\uD83D\ude00"}
ReqUnicodeEscape ==
    Take(ReqEscapes, 41)
      \o <<"\\","u","0","0","4","1","\\","u","0","0","e","9","\\","u","0","0","0","1",
           "\\","u","D","8","3","D","\\","u","d","e","0","0","\"","}">>

\* POST /api/chat CRLF CRLF {"us\u0065r":"A","message":"q\"\\\n<e-acute>"}
ReqEscapedKey ==
    Take(ReqEscapes, 20) \o <<"u","s","\\","u","0","0","6","5","r">> \o Drop(ReqEscapes, 24)

\* POST /api/chat CRLF CRLF {"x":"\u0041","user":"A","message":"q\"\\\n<e-acute>"}
ReqIgnoredEscape ==
    Take(ReqEscapes, 19) \o <<"\"","x","\"",":","\"","\\","u","0","0","4","1","\"",",">>
      \o Drop(ReqEscapes, 19)

\* POST /api/chat CRLF CRLF {"user":"A","message":"\ud800"}, a surrogate without its pair
ReqLoneSurrogate ==
    Take(ReqEscapes, 41) \o <<"\\","u","d","8","0","0","\"","}">>

\* POST /api/chat CRLF CRLF {"x":tru, the input ending inside the word true
ReqTruncatedIdent ==
    Take(ReqEscapes, 19) \o <<"\"","x","\"",":","t","r","u">>

\* POST /api/chat CRLF CRLF {"user":"A","message":"<xC3><xBF>"}, the bytes of U+00FF
ReqLatin ==
    Take(ReqEscapes, 41) \o <<"xC3","xBF","\"","}">>

\* POST /api/chat CRLF CRLF {"user":"A","message":"a<xEF><xBF>b<xBF>"}, a sequence
\* of three bytes broken off after two, and a continuation byte on its own
ReqBrokenSequence ==
    Take(ReqEscapes, 41) \o <<"a","xEF","xBF","b","xBF","\"","}">>

\* the requests a peer sends under SpecWire
WireRequests ==
    {ReqAlice, ReqBob, ReqGet, ReqOptions, ReqOptionsExtra, ReqOptionsOther,
     ReqWithHeaders, ReqNotJson, ReqMissingField, ReqMistyped, ReqDuplicate,
     ReqTrailing, ReqArray, ReqExtraField, ReqEscapes, ReqInvalidUtf8, ReqEmptyBody,
     ReqNoSeparator, ReqLfLf, ReqTwoSeparators, ReqChatroom, ReqGetChat, ReqLowerPost,
     ReqLeadingSpace, ReqShortPost, ReqGarbage, ReqRustyEmpty, ReqBrokenPost,
     ReqGlued, ReqUnicodeEscape, ReqEscapedKey, ReqIgnoredEscape, ReqLoneSurrogate,
     ReqTruncatedIdent, ReqLatin, ReqBrokenSequence, ReqLfLfThenCrLf}

\* one connection, and the peer draws its request from the wide catalogue
NextWire ==
    \/ Bind
    \/ BindFail
    \/ Accept
    \/ AcceptFail
    \/ MainReturns
    \/ PeerConnect(1)
    \/ \E r \in WireRequests : PeerSend(1, r)
    \/ PeerShutdown(1)
    \/ PeerReset(1)
    \/ Read(1)
    \/ ReadFail(1)
    \/ WriteShort(1)
    \/ WriteRest(1)
    \/ WriteFail(1)

SpecWire == Init /\ [][NextWire]_vars

\* ------------------------------------------------------------- texts a peer looks for
CorsOrigin ==
    <<"A","c","c","e","s","s","-","C","o","n","t","r","o","l","-","A","l","l","o","w","-","O","r",
      "i","g","i","n",":"," ","*">>

CorsMethods ==
    <<"A","c","c","e","s","s","-","C","o","n","t","r","o","l","-","A","l","l","o","w","-","M","e",
      "t","h","o","d","s",":"," ","P","O","S","T",","," ","O","P","T","I","O","N","S">>

CorsHeaders ==
    <<"A","c","c","e","s","s","-","C","o","n","t","r","o","l","-","A","l","l","o","w","-","H","e",
      "a","d","e","r","s",":"," ","C","o","n","t","e","n","t","-","T","y","p","e">>

TypeJson ==
    <<"C","o","n","t","e","n","t","-","T","y","p","e",":"," ","a","p","p","l","i","c","a","t","i",
      "o","n","/","j","s","o","n">>

TypePlain ==
    <<"C","o","n","t","e","n","t","-","T","y","p","e",":"," ","t","e","x","t","/","p","l","a","i",
      "n">>

LengthName ==
    <<"C","o","n","t","e","n","t","-","L","e","n","g","t","h",":"," ">>

InvalidJsonBody ==
    <<"I","n","v","a","l","i","d"," ","J","S","O","N"," ","p","a","y","l","o","a","d">>

NotAllowedBody ==
    <<"M","e","t","h","o","d"," ","n","o","t"," ","a","l","l","o","w","e","d"," ","f","o","r"," ",
      "t","h","i","s"," ","r","o","u","t","e">>

AliceReplyBody ==
    <<"{","\"","u","s","e","r","\"",":","\"","R","u","s","t","y","\"",",","\"","m","e","s","s",
      "a","g","e","\"",":","\"","Y","o","u"," ","s","a","i","d",":"," ","h","i","\"","}">>

ApiChat ==
    <<"/","a","p","i","/","c","h","a","t">>

VerbPost ==
    <<"P","O","S","T">>

VerbOptions ==
    <<"O","P","T","I","O","N","S">>

\* ------------------------------------------------------------- what a peer reads
\* the response as a client takes it apart: the head up to the first blank line, its
\* status line and header lines, and the body after the blank line
head_of(w) == Take(w, find(w, Separator))

body_after(w) == Drop(w, find(w, Separator) + 4)

\* the text that well-formed UTF-8 bytes w encode (the inverse of as_bytes)
text_of(w) == lossy_between(w, 1, Len(w))

LineEnds(h) == {p \in 1..(Len(h) - 1) : h[p] = "\r" /\ h[p + 1] = "\n"} \cup {Len(h) + 1}

LineStarts(h) == {1} \cup {p + 2 : p \in LineEnds(h) \ {Len(h) + 1}}

LineAt(h, a) ==
    LET ends == {p \in LineEnds(h) : p >= a}
    IN  SubSeq(h, a, (CHOOSE p \in ends : \A q \in ends : p <= q) - 1)

StatusLine(w) == LineAt(head_of(w), 1)

StatusCode(w) == SubSeq(StatusLine(w), 10, 12)

HeaderLines(w) == {LineAt(head_of(w), a) : a \in LineStarts(head_of(w)) \ {1}}

RECURSIVE from_decimal(_)
from_decimal(d) ==
    IF d = <<>> THEN 0
    ELSE 10 * from_decimal(SubSeq(d, 1, Len(d) - 1))
         + (CHOOSE n \in 0..9 : Digits[n + 1] = d[Len(d)])

\* the numbers the Content-Length headers of w declare
DeclaredLengths(w) ==
    {from_decimal(Drop(l, Len(LengthName))) : l \in {h \in HeaderLines(w) : starts_with(h, LengthName)}}

HasCors(w) == {CorsOrigin, CorsMethods, CorsHeaders} \subseteq HeaderLines(w)

\* the text the task of c classifies: what its peer sent, cut to the buffer, as text
RequestText(c) == from_utf8_lossy(Take(sent[c], BufSize))

\* the verb and the path of a request line: the text before the first space, and the
\* text from there to the next space or line end
UpTo(t, stops) ==
    LET at == {i \in 1..Len(t) : t[i] \in stops}
    IN  IF at = {} THEN t ELSE Take(t, (CHOOSE i \in at : \A j \in at : i <= j) - 1)

Verb(t) == UpTo(t, {" ", "\r", "\n"})

Path(t) == UpTo(Drop(t, Len(Verb(t)) + 1), {" ", "\r", "\n"})

\* t is one JSON value and nothing else
IsJson(t) ==
    LET v == ignore_value(t, 1)
    IN  v.ok /\ parse_whitespace(t, v.pos) > Len(t)

\* t is a JSON object that carries a string user and a string message
HasBothStringFields(t) ==
    /\ IsAt(t, parse_whitespace(t, 1), "{")
    /\ from_str(t) # <<>>

Answered(c) == pc[c] = "done"

\* ------------------------------------------------------------- the web interface
\* (src/frontend/web_interface/src/lib.rs)
\* lib.rs:42
UserName ==
    <<"U","s","e","r">>

\* lib.rs:95
SystemName ==
    <<"S","y","s","t","e","m">>

\* lib.rs:78
FailedToCreate ==
    <<"F","a","i","l","e","d"," ","t","o"," ","c","r","e","a","t","e"," ","r","e","q","u","e","s",
      "t",".">>

\* lib.rs:72
FailedToSend ==
    <<"F","a","i","l","e","d"," ","t","o"," ","s","e","n","d"," ","m","e","s","s","a","g","e",".",
      " ","P","l","e","a","s","e"," ","t","r","y"," ","a","g","a","i","n",".">>

\* lib.rs:62
FailedToParse ==
    <<"F","a","i","l","e","d"," ","t","o"," ","p","a","r","s","e"," ","r","e","s","p","o","n","s",
      "e"," ","f","r","o","m"," ","s","e","r","v","e","r",".">>

\* lib.rs:67  the format string up to its {}
ServerErrorPrefix ==
    <<"S","e","r","v","e","r"," ","e","r","r","o","r",":"," ">>

\* lib.rs:15-20  the Msg values a request ends in
Receive(message) == [type |-> "Receive", message |-> message]

Error(error) == [type |-> "Error", error |-> error]

\* Response::ok: the status is one of 200..299
ok(status) == 200 <= status /\ status <= 299

\* lib.rs:49-81  the future given to spawn_local, with what happens to its request:
\* attempt.created is whether Request::post(..).json(..) returned Ok, attempt.sent
\* whether send() did, attempt.status and attempt.body the response it got
send_task(attempt) ==
    IF ~attempt.created THEN Error(FailedToCreate)
    ELSE IF ~attempt.sent THEN Error(FailedToSend)
    ELSE IF ~ok(attempt.status)
         THEN Error(ServerErrorPrefix \o to_decimal(attempt.status))
    ELSE IF from_str(attempt.body) = <<>> THEN Error(FailedToParse)
    ELSE Receive(from_str(attempt.body)[1])

\* what can happen to the request that posts message: it is not created, it is not
\* sent, or it gets the server's 200 with the reply to message, its 400, or a 200
\* whose body is no ChatMessage
Attempts(message) ==
    {[created |-> FALSE, sent |-> FALSE, status |-> 0, body |-> <<>>],
     [created |-> TRUE, sent |-> FALSE, status |-> 0, body |-> <<>>],
     [created |-> TRUE, sent |-> TRUE, status |-> 200,
      body |-> to_string(process_message(message))],
     [created |-> TRUE, sent |-> TRUE, status |-> 400, body |-> body_after(BadRequestResponse)],
     [created |-> TRUE, sent |-> TRUE, status |-> 200, body |-> body_after(NotAllowedResponse)]}

\* what the user may type
Inputs == {<<"h", "i">>}

\* lib.rs:40-84  update(Msg::Send): the input becomes a message of "User" in the
\* history, the input is cleared and the request's future is spawned
UpdateSend ==
    /\ Len(requests) < MaxSends
    /\ model_messages' = Append(model_messages, ChatMessage(UserName, input))
    /\ input' = <<>>
    /\ requests' = Append(requests, [message |-> ChatMessage(UserName, input), ended |-> FALSE])
    /\ UNCHANGED mailbox
    /\ UNCHANGED server

\* lib.rs:89-92  update(Msg::UpdateInput(value))
UpdateInput(value) ==
    /\ input' = value
    /\ UNCHANGED <<model_messages, requests, mailbox>>
    /\ UNCHANGED server

\* the end of the future as it would be were the non-OK branch to fall through to
\* the decoding of the body
RequestEndsTwice(i, attempt) ==
    /\ i \in 1..Len(requests)
    /\ ~requests[i].ended
    /\ mailbox' = IF attempt.created /\ attempt.sent /\ ~ok(attempt.status)
                  THEN mailbox \o <<send_task(attempt), Error(FailedToParse)>>
                  ELSE Append(mailbox, send_task(attempt))
    /\ requests' = [requests EXCEPT ![i].ended = TRUE]
    /\ UNCHANGED <<model_messages, input>>
    /\ UNCHANGED server

\* lib.rs:49-81  the future of the i-th request runs to its end and hands its one
\* Msg to link.send_message
RequestEnds(i, attempt) ==
    /\ i \in 1..Len(requests)
    /\ ~requests[i].ended
    /\ mailbox' = Append(mailbox, send_task(attempt))
    /\ requests' = [requests EXCEPT ![i].ended = TRUE]
    /\ UNCHANGED <<model_messages, input>>
    /\ UNCHANGED server

\* lib.rs:85-88  update(Msg::Receive(message))
UpdateReceive ==
    /\ mailbox # <<>>
    /\ Head(mailbox).type = "Receive"
    /\ model_messages' = Append(model_messages, Head(mailbox).message)
    /\ mailbox' = Tail(mailbox)
    /\ UNCHANGED <<input, requests>>
    /\ UNCHANGED server

\* update(Msg::Error(error)) as it would be were the error to take the place of the
\* last entry
UpdateErrorReplaces ==
    /\ mailbox # <<>>
    /\ Head(mailbox).type = "Error"
    /\ model_messages' = SubSeq(model_messages, 1, Len(model_messages) - 1)
                            \o <<ChatMessage(SystemName, Head(mailbox).error)>>
    /\ mailbox' = Tail(mailbox)
    /\ UNCHANGED <<input, requests>>
    /\ UNCHANGED server

\* lib.rs:93-99  update(Msg::Error(error))
UpdateError ==
    /\ mailbox # <<>>
    /\ Head(mailbox).type = "Error"
    /\ model_messages' = Append(model_messages, ChatMessage(SystemName, Head(mailbox).error))
    /\ mailbox' = Tail(mailbox)
    /\ UNCHANGED <<input, requests>>
    /\ UNCHANGED server

NextUi ==
    \/ UpdateSend
    \/ \E value \in Inputs : UpdateInput(value)
    \/ \E i \in DOMAIN requests :
           \E attempt \in Attempts(requests[i].message) : RequestEnds(i, attempt)
    \/ UpdateReceive
    \/ UpdateError

SpecUi == Init /\ [][NextUi]_vars

\* the messages handed to link.send_message are passed to update: the future's
\* send_message runs the scheduler.  No request is bound to end: send() has no timeout
FairSpecUi ==
    /\ SpecUi
    /\ WF_vars(UpdateReceive)
    /\ WF_vars(UpdateError)

\* ------------------------------------------------------------- the claims
Is405(w) ==
    /\ StatusCode(w) = <<"4", "0", "5">>
    /\ TypePlain \in HeaderLines(w)
    /\ body_after(w) = NotAllowedBody

\* C1: every response the server has written declares in its Content-Length header
\* exactly the number of bytes of the body that follows the blank line
C1_ContentLengthExact ==
    \A c \in Conns :
        Answered(c) => DeclaredLengths(wire[c]) = {Len(body_after(wire[c]))}

\* C2: a request that starts with POST /api/chat and whose candidate body decodes as
\* a ChatMessage is answered 200 with Content-Type application/json and a body that
\* is the JSON of user "Rusty" and message "You said: " followed by the decoded
\* message; the body {"user":"Alice","message":"hi"} gets
\* {"user":"Rusty","message":"You said: hi"}
C2_DecodedPostAnswers200 ==
    \A c \in Conns :
        LET decoded == from_str(body_of(RequestText(c)))
        IN  Answered(c) /\ starts_with(RequestText(c), PostPrefix) /\ decoded # <<>> =>
               /\ StatusCode(wire[c]) = <<"2", "0", "0">>
               /\ TypeJson \in HeaderLines(wire[c])
               /\ from_str(text_of(body_after(wire[c])))
                    = <<ChatMessage(RustyName, SaidPrefix \o decoded[1].message)>>
               /\ sent[c] = ReqAlice => body_after(wire[c]) = AliceReplyBody

C2_Witness ==
    \E c \in Conns :
        /\ Answered(c)
        /\ sent[c] = ReqAlice
        /\ StatusCode(wire[c]) = <<"2", "0", "0">>
        /\ body_after(wire[c]) = AliceReplyBody

\* C3: a request that starts with POST /api/chat and whose candidate body is not
\* valid JSON, or lacks a required string field, is answered 400 with the fixed error
\* body, and the transform is not called for that connection
C3_BadBodyAnswers400 ==
    \A c \in Conns :
        LET body == body_of(RequestText(c))
        IN  /\ Answered(c)
            /\ starts_with(RequestText(c), PostPrefix)
            /\ ~(IsJson(body) /\ HasBothStringFields(body))
            => /\ StatusCode(wire[c]) = <<"4", "0", "0">>
               /\ body_after(wire[c]) = InvalidJsonBody
               /\ reply[c] = <<>>

\* C4: whatever the interleaving, the bytes written on a connection are the response
\* to the bytes its own peer sent: what is on the wire of c is, while the write lasts,
\* a prefix of that response, and the whole of it once the task is done
C4_NoCrossTalk ==
    \A c \in Conns :
        LET own == as_bytes(handle(Take(sent[c], BufSize)).response)
        IN  /\ wire[c] # <<>> => starts_with(own, wire[c])
            /\ pc[c] \in {"write", "done"} => response[c] = own
            /\ Answered(c) => wire[c] = own

C4_Witness ==
    /\ Answered(1) /\ Answered(2)
    /\ sent[1] = ReqAlice /\ sent[2] = ReqBob
    /\ wire[1] # wire[2]
    /\ from_str(text_of(body_after(wire[2])))
         = <<ChatMessage(RustyName, SaidPrefix \o <<"y", "o">>)>>

\* C5: a failed read or write ends the task of its own connection and nothing else:
\* the step leaves run where it stands and every other task, with what it has
\* read, framed and written, as it was; and with a task panicked, any other task in
\* its write whose peer is there can still complete its response
C5_FailureIsConfined ==
    /\ [][\A c \in Conns :
            pc[c] \in {"read", "write"} /\ pc'[c] = "panicked" =>
                /\ run' = run
                /\ backlog' = backlog
                /\ \A d \in Conns \ {c} :
                       /\ pc'[d] = pc[d]
                       /\ buffer'[d] = buffer[d]
                       /\ response'[d] = response[d]
                       /\ wire'[d] = wire[d]]_vars
    /\ [](\A c, d \in Conns :
            pc[c] = "panicked" /\ pc[d] = "write" /\ peer[d] \notin Reset => ENABLED WriteRest(d))

C5_Witness ==
    \E c, d \in Conns :
        /\ pc[c] = "panicked"
        /\ Answered(d)
        /\ wire[d] = response[d]
        /\ run = "accept"

\* C6 as stated: a request whose verb and path are neither POST /api/chat nor
\* OPTIONS /api/chat is answered 405, text/plain, with the fixed body
C6_OtherVerbPathAnswers405 ==
    \A c \in Conns :
        LET verb == Verb(RequestText(c))
            path == Path(RequestText(c))
        IN  /\ Answered(c)
            /\ ~(verb = VerbPost /\ path = ApiChat)
            /\ ~(verb = VerbOptions /\ path = ApiChat)
            => Is405(wire[c])

\* C6 amended: a request whose text starts neither with POST /api/chat nor with
\* OPTIONS /api/chat is answered 405, text/plain, with the fixed body
C6_OtherPrefixAnswers405 ==
    \A c \in Conns :
        /\ Answered(c)
        /\ ~starts_with(RequestText(c), PostPrefix)
        /\ ~starts_with(RequestText(c), OptionsPrefix)
        => Is405(wire[c])

C6_Witness ==
    \E c \in Conns : Answered(c) /\ sent[c] = ReqGetChat /\ Is405(wire[c])

\* C7: a request that starts with OPTIONS /api/chat is answered 200 with
\* Content-Length 0, an empty body and the three CORS headers, whatever follows the
\* prefix
C7_OptionsAnswers200Empty ==
    \A c \in Conns :
        Answered(c) /\ starts_with(RequestText(c), OptionsPrefix) =>
            /\ StatusCode(wire[c]) = <<"2", "0", "0">>
            /\ DeclaredLengths(wire[c]) = {0}
            /\ body_after(wire[c]) = <<>>
            /\ HasCors(wire[c])

C7_Witness ==
    \E c \in Conns :
        /\ Answered(c)
        /\ sent[c] = ReqOptionsExtra
        /\ StatusCode(wire[c]) = <<"2", "0", "0">>
        /\ body_after(wire[c]) = <<>>

\* C8: the transform gives, for every decoded message, user "Rusty" whatever the
\* sender's name and message "You said: " followed by the sender's message; the
\* decoded message stays what was decoded and the message history stays as it was
C8_TransformIsPure ==
    \A c \in Conns :
        reply[c] # <<>> =>
            /\ reply[c][1].user = RustyName
            /\ reply[c][1].message = SaidPrefix \o chat_message[c][1].message
            /\ chat_message[c] = from_str(body_of(from_utf8_lossy(buffer[c])))
            /\ messages = <<>>

C8_Witness ==
    \E c \in Conns :
        /\ reply[c] # <<>>
        /\ chat_message[c][1].user # RustyName
        /\ chat_message[c][1].message # <<>>
        /\ reply[c][1].message = SaidPrefix \o chat_message[c][1].message

\* C9: a task that has ended leaves its peer with the whole response or with no
\* byte of it, never with a proper prefix
C9_WholeOrNothing ==
    \A c \in Conns :
        pc[c] \in Terminal => wire[c] = <<>> \/ wire[c] = response[c]

\* C10: every response written carries the three CORS headers
C10_CorsOnEveryResponse ==
    \A c \in Conns : Answered(c) => HasCors(wire[c])

C10_Witness ==
    \E c \in Conns :
        /\ Answered(c)
        /\ StatusCode(wire[c]) = <<"4", "0", "0">>
        /\ HasCors(wire[c])

\* C11: once the listening socket is bound run never returns: no step taken while run
\* is in its accept loop, a failed accept included, takes it out of the loop
C11_BoundRunNeverReturns ==
    [][run = "accept" => run' = "accept"]_vars

\* how far the task of a connection has come
Rank(p) ==
    CASE p = "none" -> 0
      [] p = "read" -> 1
      [] p = "write" -> 2
      [] OTHER -> 3

StatusCodes == {<<"2", "0", "0">>, <<"4", "0", "0">>, <<"4", "0", "5">>}

\* C12: each accepted connection has one task, which reads once, writes at most one
\* response and ends: the task never goes back (no second accept of the connection,
\* no second read), what it read and what it framed stay fixed once it is past its
\* read, the bytes on the wire only ever grow as a prefix of that one response, and
\* once the task has ended nothing is read or written on the connection any more; a
\* task that ended after its write has written a whole 200, 400 or 405 response, and
\* every other ended task has failed and left no whole response
C12_OneReadOneResponseThenClose ==
    /\ [][\A c \in Conns :
            /\ Rank(pc'[c]) >= Rank(pc[c])
            /\ buffer'[c] # buffer[c] => pc[c] = "read" /\ pc'[c] = "write"
            /\ Rank(pc[c]) >= 2 => response'[c] = response[c]
            /\ starts_with(wire'[c], wire[c]) /\ starts_with(response'[c], wire'[c])
            /\ pc[c] \in Terminal =>
                   /\ pc'[c] = pc[c]
                   /\ wire'[c] = wire[c]
                   /\ ~ENABLED Read(c) /\ ~ENABLED WriteShort(c) /\ ~ENABLED WriteRest(c)]_vars
    /\ [](\A c \in Conns :
            /\ pc[c] = "done" => wire[c] = response[c] /\ StatusCode(wire[c]) \in StatusCodes
            /\ pc[c] \in Terminal \ {"done"} => response[c] = <<>> \/ wire[c] # response[c])

C12_Witness ==
    \E c, d \in Conns :
        /\ pc[c] = "done"
        /\ StatusCode(wire[c]) = <<"2", "0", "0">>
        /\ pc[d] = "panicked"
        /\ wire[d] # <<>>
        /\ sent[d] # <<>>

\* C13: under fair scheduling, whatever the other connections do (one that never
\* sends stays at its read, one whose peer never drains stays in its write), every
\* connection whose peer has connected, sent a request and takes the response is
\* accepted and eventually answered, unless that peer itself resets the connection
C13_OthersEventuallyAnswered ==
    \A d \in Draining :
        (peer[d] = "open" /\ sent[d] # <<>>) ~> (Answered(d) \/ peer[d] \in Reset)

\* C14: the task reads once, at most 1024 bytes: what it read is the start of what
\* the peer had sent by then, what it decoded and framed is what that text alone gives
\* and stays so whatever the peer sends afterwards; a POST cut by the buffer's end or
\* by its late second piece is answered 400 on the cut text, and a second request
\* behind a first that fills the buffer is not looked at
C14_OneReadOfAtMostBufSize ==
    /\ [][\A c \in Conns :
            Rank(pc[c]) >= 2 =>
                /\ buffer'[c] = buffer[c]
                /\ chat_message'[c] = chat_message[c]
                /\ response'[c] = response[c]]_vars
    /\ [](\A c \in Conns :
            pc[c] \in {"write", "done"} =>
                /\ Len(buffer[c]) <= BufSize
                /\ starts_with(sent[c], buffer[c])
                /\ chat_message[c] = from_str(body_of(from_utf8_lossy(buffer[c])))
                /\ Len(buffer[c]) = BufSize /\ sent[c] = ReqLong =>
                       SubSeq(response[c], 10, 12) = <<"4", "0", "0">>
                /\ Len(buffer[c]) = BufSize /\ sent[c] = ReqPipelined =>
                       SubSeq(response[c], 10, 12) = <<"2", "0", "0">>
                /\ buffer[c] = Take(ReqAlice, 40) =>
                       SubSeq(response[c], 10, 12) = <<"4", "0", "0">>)

C14_Witness ==
    \E c \in Conns :
        /\ Answered(c)
        /\ sent[c] = ReqAlice
        /\ buffer[c] = Take(ReqAlice, 40)
        /\ StatusCode(wire[c]) = <<"4", "0", "0">>

LfLf == <<"\n", "\n">>

\* where in t an occurrence of sep ends
SeparatorEnds(t, sep) ==
    {k \in Len(sep)..Len(t) : SubSeq(t, k - Len(sep) + 1, k) = sep}

\* t after the first occurrence of one of seps, the whole of t when there is none
TextAfterFirst(t, seps) ==
    LET ends == UNION {SeparatorEnds(t, sep) : sep \in seps}
    IN  IF ends = {} THEN t ELSE Drop(t, CHOOSE k \in ends : \A j \in ends : k <= j)

\* C15 as stated: in the POST branch the candidate body, which is what the task
\* decodes, is the text after the first separator, CRLF CRLF or two plain newlines,
\* and the whole text when there is neither
C15_BodyAfterEitherSeparator ==
    \A c \in Conns :
        LET request == from_utf8_lossy(buffer[c])
        IN  pc[c] \in {"write", "done"} /\ starts_with(request, PostPrefix) =>
                chat_message[c] = from_str(TextAfterFirst(request, {Separator, LfLf}))

\* C15 amended: in the POST branch the candidate body, which is what the task
\* decodes, is the text after the first CRLF CRLF, and the whole text when there is no
\* CRLF CRLF; two plain newlines are not a separator: with no CRLF CRLF the body is
\* the whole text though two newlines occur in it, and with a CRLF CRLF behind two
\* newlines the body starts after the CRLF CRLF
C15_BodyAfterFirstCrLfCrLf ==
    \A c \in Conns :
        LET request == from_utf8_lossy(buffer[c])
        IN  pc[c] \in {"write", "done"} /\ starts_with(request, PostPrefix) =>
                /\ body_of(request) = TextAfterFirst(request, {Separator})
                /\ chat_message[c] = from_str(TextAfterFirst(request, {Separator}))
                /\ SeparatorEnds(request, Separator) = {} => body_of(request) = request
                /\ buffer[c] = ReqLfLf => chat_message[c] = from_str(request)
                /\ buffer[c] = ReqLfLfThenCrLf =>
                       chat_message[c] = <<ChatMessage(<<"A">>, <<"b">>)>>

C15_Witness ==
    \E c \in Conns :
        /\ Answered(c)
        /\ buffer[c] = ReqTwoSeparators
        /\ chat_message[c] = <<ChatMessage(<<"A">>, <<"b">>)>>
        /\ StatusCode(wire[c]) = <<"2", "0", "0">>

\* what the task of connection c holds
Locals(c) == <<pc[c], buffer[c], chat_message[c], reply[c], response[c], wire[c]>>

\* C16: the message history stays empty, and a step of the task of one connection
\* (its read, a piece or the end of its write, its failure) changes nothing but what
\* that task holds: not the history, not the accept loop or the connections waiting
\* in it, not what any other task holds
C16_TasksShareNothing ==
    /\ [](messages = <<>>)
    /\ [][\A c \in Conns :
            /\ pc[c] \in {"read", "write"}
            /\ pc'[c] # "aborted"
            /\ Locals(c)' # Locals(c)
            => /\ messages' = messages
               /\ run' = run
               /\ backlog' = backlog
               /\ \A d \in Conns \ {c} : Locals(d)' = Locals(d)]_vars

C16_Witness ==
    /\ Answered(1) /\ Answered(2)
    /\ chat_message[1] # <<>>
    /\ reply[1] # <<>> /\ reply[2] # <<>>
    /\ reply[1] # reply[2]
    /\ messages = <<>>

\* the branch a response w comes from, told by the response alone
RespondedAs(b, w) ==
    CASE b = "post" ->
            \/ StatusCode(w) = <<"4", "0", "0">>
            \/ StatusCode(w) = <<"2", "0", "0">> /\ TypeJson \in HeaderLines(w)
      [] b = "options" ->
            /\ StatusCode(w) = <<"2", "0", "0">>
            /\ TypeJson \notin HeaderLines(w)
            /\ body_after(w) = <<>>
      [] OTHER -> Is405(w)

\* C17: whatever the read returned, the task comes to its write with the response of
\* exactly one branch: the POST branch when the bytes start with POST /api/chat, the
\* OPTIONS branch when they start with OPTIONS /api/chat, the fallback otherwise; a
\* read of zero bytes and bytes that are no valid UTF-8 at the start of the request
\* get the 405 of the fallback
C17_ClassificationIsTotal ==
    \A c \in Conns :
        pc[c] \in {"write", "done"} =>
            /\ Cardinality({b \in {"post", "options", "other"} : RespondedAs(b, response[c])}) = 1
            /\ RespondedAs("post", response[c]) <=> starts_with(buffer[c], PostPrefix)
            /\ RespondedAs("options", response[c]) <=> starts_with(buffer[c], OptionsPrefix)
            /\ buffer[c] \in {<<>>, ReqGarbage, ReqBrokenPost} => Is405(response[c])

C17_Witness ==
    \E c \in Conns :
        /\ Answered(c)
        /\ peer[c] = "shut"
        /\ buffer[c] = <<>>
        /\ Is405(wire[c])

\* C18: a request that starts with POST /api/chat and has no CRLF CRLF in the bytes
\* read is answered 400 with the fixed body: nothing is decoded from it and the
\* transform is not called
C18_PostWithoutSeparatorAnswers400 ==
    \A c \in Conns :
        /\ Answered(c)
        /\ starts_with(RequestText(c), PostPrefix)
        /\ SeparatorEnds(RequestText(c), Separator) = {}
        => /\ StatusCode(wire[c]) = <<"4", "0", "0">>
           /\ body_after(wire[c]) = InvalidJsonBody
           /\ chat_message[c] = <<>>
           /\ reply[c] = <<>>

C18_Witness ==
    \E c \in Conns :
        /\ Answered(c)
        /\ sent[c] = ReqGlued
        /\ StatusCode(wire[c]) = <<"4", "0", "0">>
        /\ body_after(wire[c]) = InvalidJsonBody

\* the requests that have ended
Ended == {i \in DOMAIN requests : requests[i].ended}

\* the entries of the history that are not a message of "User"
FollowUps == SelectSeq(model_messages, LAMBDA e : e.user # UserName)

\* the texts an Error event carries
ErrorTexts ==
    {FailedToCreate, FailedToSend, FailedToParse,
     ServerErrorPrefix \o <<"4", "0", "0">>}

\* C19: each Send starts one request, and a request that ends gives one follow-up
\* event, a Receive or an Error: the messages of "User" in the history are, in order,
\* those the requests post; the step that ends a request hands over exactly one
\* event; the events handed over are each waiting or have added their one entry, the
\* reply "You said: ..." of "Rusty" to one of the messages sent or one of the error
\* texts under "System"; and every event handed over does add its entry, so that with
\* all requests ended the history comes to two entries for each Send
C19_OneFollowUpPerSend ==
    /\ [](/\ SelectSeq(model_messages, LAMBDA e : e.user = UserName)
               = [i \in DOMAIN requests |-> requests[i].message]
          /\ Len(FollowUps) + Len(mailbox) = Cardinality(Ended)
          /\ \A k \in DOMAIN FollowUps :
                \/ FollowUps[k].user = SystemName /\ FollowUps[k].message \in ErrorTexts
                \/ \E i \in DOMAIN requests :
                      FollowUps[k] = ChatMessage(RustyName, SaidPrefix \o requests[i].message.message))
    /\ [][\A i \in DOMAIN requests :
            ~requests[i].ended /\ requests'[i].ended =>
                /\ Len(mailbox') = Len(mailbox) + 1
                /\ mailbox'[Len(mailbox')].type \in {"Receive", "Error"}
                /\ model_messages' = model_messages]_vars
    /\ \A n \in 1..MaxSends :
          (Cardinality(Ended) >= n) ~> (Len(model_messages) >= Len(requests) + n)
    /\ \A n \in 1..MaxSends :
          (Cardinality(Ended) = n /\ Len(requests) = n) ~> (Len(model_messages) = 2 * n)

C19_Witness ==
    /\ Len(requests) = 2
    /\ Cardinality(Ended) = 2
    /\ mailbox = <<>>
    /\ Len(model_messages) = 4
    /\ model_messages[2].user = RustyName
    /\ model_messages[3].user = UserName
    /\ model_messages[4].user = SystemName

\* the entry an event of the mailbox adds to the history
EntryOf(msg) ==
    IF msg.type = "Receive" THEN msg.message ELSE ChatMessage(SystemName, msg.error)

\* C20: every step leaves the entries of the history in place and at most adds one
\* at its end: a Send (one more request) adds "User" with the input as it was and
\* empties the input; a Receive or an Error (one event fewer waiting) adds the
\* message received, or "System" with the error text, and leaves the input; a change
\* of the input that is no Send leaves the history
C20_HistoryIsAppendOnly ==
    [][/\ starts_with(model_messages', model_messages)
       /\ Len(model_messages') <= Len(model_messages) + 1
       /\ Len(requests') > Len(requests) =>
              /\ model_messages' = Append(model_messages, ChatMessage(UserName, input))
              /\ input' = <<>>
       /\ Len(mailbox') < Len(mailbox) =>
              /\ model_messages' = Append(model_messages, EntryOf(Head(mailbox)))
              /\ input' = input
       /\ input' # input /\ Len(requests') = Len(requests) =>
              model_messages' = model_messages]_vars

C20_Witness ==
    /\ Len(model_messages) = 4
    /\ model_messages[1] = ChatMessage(UserName, <<"h", "i">>)
    /\ model_messages[2] = ChatMessage(SystemName, FailedToSend)
    /\ model_messages[3] = ChatMessage(UserName, <<>>)
    /\ model_messages[4] = ChatMessage(RustyName, SaidPrefix)
    /\ input = <<"h", "i">>
====
